---- MODULE Spec2Model ----
(***************************************************************************)
(* Model of the mailcam repository:                                        *)
(*   - DailyCarrierTracker   (detector/mailcam_detector_onnx.py)           *)
(*   - the ONNX detection loop, main() of the same file                    *)
(*   - the delivery-state sidecar (mailcam_bundle/mailcam_sidecar.py)      *)
(*   - nms() of detector/mailcam_detector_onnx.py                          *)
(*   - the two-stage cascade (detector/twostage.py)                        *)
(*                                                                         *)
(* Time is counted in minutes of local wall-clock time; a calendar date is *)
(* the integer part of time divided by MinutesPerDay.  time.time() and     *)
(* datetime.now() read the same clock.                                     *)
(***************************************************************************)
EXTENDS Integers, Sequences, FiniteSets, TLC

\* ------------------------------------------------------------------------
\* Bounds of the model
\* ------------------------------------------------------------------------
\* Last calendar date the clock may reach (dates are 1..MaxDay).
MaxDay == 2
\* Cycles of the detection loop that are followed.
MaxIter == 2
\* Longest hit list run_detection returns.
MaxHits == 2
\* Most boxes handed to nms.
MaxBoxes == 3
\* Most boxes a stage-1 detector returns.
MaxDet == 3
\* Largest max_vehicle_crops passed to two_stage_hits.
MaxCrops == 2
MaxCycles == 3
MaxWork == 11

\* ------------------------------------------------------------------------
\* Program constants
\* ------------------------------------------------------------------------
MinutesPerDay == 1440
MinutesPerHour == 60
\* CARRIER_TRACKER = DailyCarrierTracker(sorted(ALLOW_LABELS), reset_hour=3)
reset_hour == 3
\* Python's None, kept apart from every timestamp (timestamps are >= 0).
None == -1

\* ALLOW_LABELS of the configuration: the carriers the tracker is built with.
carriers == {"ups", "usps"}
\* A label that is not configured.
UnknownCarriers == {"dhl"}

\* Minutes of the day at which the clock is sampled:
\* 00:00, 02:59, 03:00 and 04:01.
SampleMinutes == {0, 179, 180, 241}

At(d, m) == d * MinutesPerDay + m
Times == {At(d, m) : d \in 1..MaxDay, m \in SampleMinutes}

DateOf(t) == t \div MinutesPerDay
HourOf(t) == (t % MinutesPerDay) \div MinutesPerHour
MinuteOf(t) == t % MinutesPerHour

VARIABLES
    now,          \* the local clock
    detections,   \* DailyCarrierTracker.detections : carrier -> timestamp or None
    current_day,  \* DailyCarrierTracker.current_day (a date)
    lastCall      \* the last tracker method called and what it returned

\* The sidecar process (mailcam_sidecar.py)
VARIABLES
    CURR,            \* global CURR: carriers present now
    TODAY,           \* global TODAY: carriers seen since the last reset
    LAST_RESET_DAY,  \* global LAST_RESET_DAY (a day of the year, or None)
    LOCK,            \* TRUE while threading.Lock LOCK is held
    stateFile,       \* content of the file STATE
    tmpFile,         \* content of the file STATE + ".tmp"
    mainPc,          \* where main() is
    handlers,        \* the invocations of on_message: position and locals
    sinceCrossing    \* history: carriers reported since the clock last
                     \* crossed RESET_H

\* The detection loop: main() of mailcam_detector_onnx.py
VARIABLES
    loopPc,             \* where the loop is within its cycle
    iteration,          \* local iteration
    img,                \* local img: the fetched frame, or NoImage
    hits,               \* local hits: the labels of the hits, in order
    exc,                \* whether run_detection raised in this cycle
    current_timestamp,  \* local current_timestamp
    pubLog              \* the calls of client.publish made in this cycle

\* nms(xyxy, scores, iou_threshold) of mailcam_detector_onnx.py
VARIABLES
    nmsPc,          \* where the call is
    xyxy,           \* argument xyxy: the boxes
    scores,         \* argument scores
    iou_threshold,  \* argument iou_threshold, a fraction <<p, q>>
    idx,            \* local idx
    keep            \* local keep

\* two_stage_hits(frame_bgr, ..., max_vehicle_crops) of twostage.py
VARIABLES
    tsPc,               \* where the call is
    frame,              \* frame_bgr.shape[:2] as [H, W]
    max_vehicle_crops,  \* argument max_vehicle_crops
    det_index,          \* position of _collect_proposals in det_model_paths
    detLog,             \* history: the detectors tried and what each gave
    proposals,          \* local proposals
    used_det_model,     \* local used_det_model (a position of det_order, or None)
    todo,               \* what is left of proposals[:max_vehicle_crops]
    brandLog,           \* history: the proposals given to brand.predict
    brand_hits          \* local hits

\* The sleep schedule of the polling loops (main of mailcam_detector_onnx.py,
\* the module loop of mailcam_daemon.py)
VARIABLES
    schedPc,     \* where the loop is
    mono,        \* the reading of time.monotonic()
    start,       \* history: the reading next_time was initialised with
    next_time,   \* local next_time (next_t in mailcam_daemon.py)
    sleep_time,  \* local sleep_time, the argument of time.sleep
    cycles,      \* history: how many cycles have slept
    workLog      \* history: how long the work of each cycle took

trackerVars == <<detections, current_day, lastCall>>
schedVars == <<schedPc, mono, start, next_time, sleep_time, cycles, workLog>>
cascadeVars == <<tsPc, frame, max_vehicle_crops, det_index, detLog, proposals,
                 used_det_model, todo, brandLog, brand_hits>>
nmsVars == <<nmsPc, xyxy, scores, iou_threshold, idx, keep>>
\* The variables of the pure functions.
auxVars == <<nmsPc, xyxy, scores, iou_threshold, idx, keep,
             tsPc, frame, max_vehicle_crops, det_index, detLog, proposals,
             used_det_model, todo, brandLog, brand_hits,
             schedPc, mono, start, next_time, sleep_time, cycles, workLog>>
loopVars == <<loopPc, iteration, img, hits, exc, current_timestamp, pubLog>>
sidecarVars == <<CURR, TODAY, LAST_RESET_DAY, LOCK, stateFile, tmpFile,
                 mainPc, handlers, sinceCrossing>>
vars == <<now, detections, current_day, lastCall,
          CURR, TODAY, LAST_RESET_DAY, LOCK, stateFile, tmpFile,
          mainPc, handlers, sinceCrossing,
          loopPc, iteration, img, hits, exc, current_timestamp, pubLog,
          nmsPc, xyxy, scores, iou_threshold, idx, keep,
          tsPc, frame, max_vehicle_crops, det_index, detLog, proposals,
          used_det_model, todo, brandLog, brand_hits,
          schedPc, mono, start, next_time, sleep_time, cycles, workLog>>

\* No call of nms is in progress.
NmsIdle ==
    /\ nmsPc = "idle"
    /\ xyxy = <<>>
    /\ scores = <<>>
    /\ iou_threshold = <<0, 1>>
    /\ idx = <<>>
    /\ keep = <<>>

\* No call of two_stage_hits is in progress.
CascadeIdle ==
    /\ tsPc = "idle"
    /\ frame = [H |-> 1, W |-> 1]
    /\ max_vehicle_crops = 0
    /\ det_index = 1
    /\ detLog = <<>>
    /\ proposals = <<>>
    /\ used_det_model = None
    /\ todo = <<>>
    /\ brandLog = <<>>
    /\ brand_hits = <<>>

\* None of the pure functions is being called.
\* No polling schedule is running.
SchedIdle ==
    /\ schedPc = "idle"
    /\ mono = 0
    /\ start = 0
    /\ next_time = 0
    /\ sleep_time = 0
    /\ cycles = 0
    /\ workLog = <<>>

AuxIdle == NmsIdle /\ CascadeIdle /\ SchedIdle

\* ------------------------------------------------------------------------
\* DailyCarrierTracker
\* ------------------------------------------------------------------------
\* Python truthiness of a timestamp-or-None value.
Truthy(x) == x # None /\ x # 0

\* datetime.strftime("%I:%M %p"): 12-hour clock, minute, AM/PM.
strftime_IMp(t) ==
    LET h == HourOf(t)
        h12 == IF h % 12 = 0 THEN 12 ELSE h % 12
    IN  <<h12, MinuteOf(t), IF h < 12 THEN "AM" ELSE "PM">>

\* Variant of _get_current_day that always takes the calendar date.
_get_current_day_calendar(t) == DateOf(t)

\* _get_current_day: the date of `t`, or the date before when the hour of
\* `t` is before reset_hour.
_get_current_day(t) ==
    IF HourOf(t) < reset_hour THEN DateOf(t) - 1 ELSE DateOf(t)

\* The tracker object as a record of its mutable fields.
Self == [detections |-> detections, current_day |-> current_day]

\* __init__ at time t.
tracker_init(t) ==
    [detections |-> [c \in carriers |-> None],
     current_day |-> _get_current_day(t),
     ret |-> FALSE]

\* Variant of check_and_reset that clears the detections but keeps the old
\* current_day.
check_and_reset_keeps_day(self, t) ==
    LET day == _get_current_day(t) IN
    IF day > self.current_day
    THEN [detections |-> [c \in carriers |-> None],
          current_day |-> self.current_day,
          ret |-> TRUE]
    ELSE [detections |-> self.detections,
          current_day |-> self.current_day,
          ret |-> FALSE]

\* Variant of mark_detected that records every call, not only the first.
mark_detected_overwrites(self, carrier, timestamp, t) ==
    IF carrier \notin carriers
    THEN [detections |-> self.detections, current_day |-> self.current_day,
          ret |-> FALSE]
    ELSE [detections |-> [self.detections EXCEPT ![carrier] =
                             IF Truthy(timestamp) THEN timestamp ELSE t],
          current_day |-> self.current_day,
          ret |-> TRUE]

\* Variant of mark_detected without the membership test: an unknown carrier
\* becomes a new key.
mark_detected_adds_key(self, carrier, timestamp, t) ==
    IF carrier \in DOMAIN self.detections /\ self.detections[carrier] # None
    THEN [detections |-> self.detections, current_day |-> self.current_day,
          ret |-> FALSE]
    ELSE [detections |-> [c \in DOMAIN self.detections \cup {carrier} |->
                             IF c = carrier
                             THEN IF Truthy(timestamp) THEN timestamp ELSE t
                             ELSE self.detections[c]],
          current_day |-> self.current_day,
          ret |-> TRUE]

\* Each method maps the object (and the clock reading t) to the object after
\* the call and the value returned.
\* Variant of check_and_reset that resets whenever the computed day differs
\* from the stored one.
check_and_reset_on_any_change(self, t) ==
    LET day == _get_current_day(t) IN
    IF day # self.current_day
    THEN [detections |-> [c \in carriers |-> None],
          current_day |-> day,
          ret |-> TRUE]
    ELSE [detections |-> self.detections,
          current_day |-> self.current_day,
          ret |-> FALSE]

check_and_reset(self, t) ==
    LET day == _get_current_day(t) IN
    IF day > self.current_day
    THEN [detections |-> [c \in carriers |-> None],
          current_day |-> day,
          ret |-> TRUE]
    ELSE [detections |-> self.detections,
          current_day |-> self.current_day,
          ret |-> FALSE]

mark_detected(self, carrier, timestamp, t) ==
    IF carrier \notin carriers
    THEN [detections |-> self.detections, current_day |-> self.current_day,
          ret |-> FALSE]
    ELSE IF self.detections[carrier] = None
    THEN [detections |-> [self.detections EXCEPT ![carrier] =
                             IF Truthy(timestamp) THEN timestamp ELSE t],
          current_day |-> self.current_day,
          ret |-> TRUE]
    ELSE [detections |-> self.detections, current_day |-> self.current_day,
          ret |-> FALSE]

\* dict.get(carrier) is not None
is_detected(self, carrier) ==
    [detections |-> self.detections, current_day |-> self.current_day,
     ret |-> IF carrier \in DOMAIN self.detections
             THEN self.detections[carrier] # None
             ELSE FALSE]

\* Variant of get_summary that reports a carrier only when its timestamp
\* falls on the tracker's current day.
get_summary_current_day_only(self) ==
    [detections |-> self.detections, current_day |-> self.current_day,
     ret |-> [date |-> self.current_day,
              carriers |-> [c \in carriers |->
                 IF /\ Truthy(self.detections[c])
                    /\ _get_current_day(self.detections[c]) = self.current_day
                 THEN [detected |-> TRUE,
                       timestamp |-> self.detections[c],
                       time |-> strftime_IMp(self.detections[c])]
                 ELSE [detected |-> FALSE, timestamp |-> None,
                       time |-> <<>>]]]]

\* Lines 129-146
get_summary(self) ==
    [detections |-> self.detections, current_day |-> self.current_day,
     ret |-> [date |-> self.current_day,
              carriers |-> [c \in carriers |->
                 IF Truthy(self.detections[c])
                 THEN [detected |-> TRUE,
                       timestamp |-> self.detections[c],
                       time |-> strftime_IMp(self.detections[c])]
                 ELSE [detected |-> FALSE, timestamp |-> None,
                       time |-> <<>>]]]]

\* lastCall.summary when the last call was not get_summary.
NoSummary == [date |-> None, carriers |-> [c \in carriers |-> [detected |-> FALSE, timestamp |-> None, time |-> <<>>]]]

\* The effect of a call on the tracker variables: the object after the call,
\* and the call's name and result (a Boolean in ret, or a summary).
Call(op, r) ==
    /\ detections' = r.detections
    /\ current_day' = r.current_day
    /\ lastCall' = [op |-> op,
                    ret |-> IF op = "get_summary" THEN FALSE ELSE r.ret,
                    summary |-> IF op = "get_summary" THEN r.ret ELSE NoSummary]

\* ------------------------------------------------------------------------
\* The sidecar: mailcam_sidecar.py
\* ------------------------------------------------------------------------
\* RESET_H = int(os.getenv('MAILCAM_RESET_HOUR','3'))
RESET_H == 3

\* The threads that may run on_message at the same time.
Handlers == {"h1", "h2"}

\* str.lower on the service names that occur in messages.
str_lower(x) ==
    CASE x = "UPS" -> "ups"
      [] x = "FedEx" -> "fedex"
      [] OTHER -> x
\* set(map(str.lower, array))
LowerSet(array) == {str_lower(x) : x \in array}

\* _local_day(): datetime.now().timetuple().tm_yday (the model's dates stay
\* within one year).
_local_day(t) == DateOf(t)

\* Whether the clock crosses RESET_H o'clock on the way from t1 to t2.
CrossesReset(t1, t2) ==
    \E d \in 0..(MaxDay + 1) :
        t1 < At(d, RESET_H * MinutesPerHour) /\ At(d, RESET_H * MinutesPerHour) <= t2

\* --- files -------------------------------------------------------------
\* A file is missing, holds text that is no JSON document (a partial or
\* foreign write), or holds the JSON object _write_state dumps.  The lists
\* "current" and "today" are sorted lists of distinct strings and are kept as
\* the sets they list; "ts" is never read back and is left out.
MissingFile == [kind |-> "missing", current |-> {}, today |-> {}]
PartialFile == [kind |-> "partial", current |-> {}, today |-> {}]
JsonFile(current, today) ==
    [kind |-> "json", current |-> current, today |-> today]

\* --- messages ----------------------------------------------------------
\* The payload of a message: bytes that are no JSON, or a JSON value.  `has`
\* is the set of the four schema keys k for which Python's `k in payload`
\* is true (keys of an object, elements of an array, substrings of a
\* string); the arrays are the values of the object's keys.
SchemaKeys == {"entered", "current", "today", "services"}
EventKeys == {"entered", "current", "today"}
Payload(type, has, entered, current, today, services) ==
    [type |-> type, has |-> has, entered |-> entered, current |-> current,
     today |-> today, services |-> services]
NoPayload == Payload("none", {}, {}, {}, {}, {})

InvalidJson == Payload("invalid", {}, {}, {}, {}, {})
JsonNumber == Payload("number", {}, {}, {}, {}, {})
JsonString(has) == Payload("string", has, {}, {}, {}, {})
JsonArray(has) == Payload("array", has, {}, {}, {}, {})
ServicesMsg(services) == Payload("object", {"services"}, {}, {}, {}, services)
CurrentMsg(current) == Payload("object", {"current"}, {}, current, {}, {})
TodayMsg(today) == Payload("object", {"today"}, {}, {}, today, {})
EventMsg(entered, current, today) ==
    Payload("object", EventKeys, entered, current, today, {})
OtherObject == Payload("object", {}, {}, {}, {}, {})

RejectedPayloads ==
    {InvalidJson, JsonNumber, JsonString({}), JsonString({"services"}),
     JsonArray({"entered"}), OtherObject}
ServicesPayloads ==
    {ServicesMsg({"UPS"}), ServicesMsg({"FedEx"}), ServicesMsg({})}
EventPayloads ==
    {CurrentMsg({"FedEx"}), CurrentMsg({}), TodayMsg({"UPS"}),
     EventMsg({"UPS"}, {"FedEx"}, {"FedEx"})}
Payloads == RejectedPayloads \cup ServicesPayloads \cup EventPayloads

\* _coerce_services(payload), payload being the value json.loads returned.
\* `k in payload` raises TypeError for a number; payload.get raises
\* AttributeError for a string or an array in which a key was found.
_coerce_services(payload, t) ==
    IF payload.type \in {"number"} THEN [raised |-> TRUE, entered |-> {}, current |-> {}, today |-> {}, ts |-> None]
    ELSE IF payload.has \cap EventKeys # {}
    THEN IF payload.type # "object"
         THEN [raised |-> TRUE, entered |-> {}, current |-> {}, today |-> {}, ts |-> None]
         ELSE [raised |-> FALSE,
               entered |-> LowerSet(payload.entered),
               current |-> LowerSet(payload.current),
               today |-> LowerSet(payload.today),
               ts |-> t]
    ELSE IF "services" \in payload.has
    THEN IF payload.type # "object"
         THEN [raised |-> TRUE, entered |-> {}, current |-> {}, today |-> {}, ts |-> None]
         ELSE [raised |-> FALSE, entered |-> LowerSet(payload.services),
               current |-> {}, today |-> {}, ts |-> t]
    ELSE [raised |-> FALSE, entered |-> {}, current |-> {}, today |-> {}, ts |-> None]

\* _ensure_reset_if_needed() at clock reading t: the globals after it.
_ensure_reset_if_needed(today, last_reset_day, t) ==
    IF last_reset_day # _local_day(t) /\ HourOf(t) >= RESET_H
    THEN [TODAY |-> {}, LAST_RESET_DAY |-> _local_day(t)]
    ELSE [TODAY |-> today, LAST_RESET_DAY |-> last_reset_day]

\* Variant of the merge in on_message that replaces the sets by `entered`.
merge_replaces(curr, today, m) ==
    LET c1 == IF m.entered # {} THEN m.entered ELSE curr
        t1 == IF m.entered # {} THEN m.entered ELSE today
    IN  [CURR |-> IF m.current # {} THEN m.current ELSE c1,
         TODAY |-> IF m.today # {} THEN m.today ELSE t1,
         changed |-> m.entered # {} \/ m.current # {} \/ m.today # {}]

\* The merge of on_message (lines 99-112) of the coerced message m into
\* the globals: the globals after it, and `changed`.
merge(curr, today, m) ==
    LET c1 == IF m.entered # {} THEN curr \cup m.entered ELSE curr
        t1 == IF m.entered # {} THEN today \cup m.entered ELSE today
    IN  [CURR |-> IF m.current # {} THEN m.current ELSE c1,
         TODAY |-> IF m.today # {} THEN m.today ELSE t1,
         changed |-> m.entered # {} \/ m.current # {} \/ m.today # {}]

\* --- _write_state, step by step -----------------------------------------
\* Variant of the open that truncates the state file itself.
write_state_open_in_place ==
    /\ stateFile' = PartialFile
    /\ UNCHANGED tmpFile
\* open(tmp, 'w') truncates the temp file
write_state_open ==
    /\ tmpFile' = PartialFile
    /\ UNCHANGED stateFile
\* json.dump(out, f) and the close of the file
write_state_dump ==
    /\ tmpFile' = JsonFile(CURR, TODAY)
    /\ UNCHANGED stateFile
\* os.replace(tmp, STATE)
write_state_replace ==
    /\ stateFile' = tmpFile
    /\ tmpFile' = MissingFile

\* --- on_message, run by handler h ---------------------------------------
IdleHandler ==
    [pc |-> "idle", payload |-> NoPayload,
     entered |-> {}, current |-> {}, today |-> {}]

SetHandler(h, pc) == handlers' = [handlers EXCEPT ![h].pc = pc]

\* Lines 87-95: decode the payload and coerce it; return on bad JSON or an
\* unknown schema.  An exception of _coerce_services leaves on_message and
\* ends the process (main catches KeyboardInterrupt only).
on_message_decode(h, p) ==
    /\ mainPc = "loop"
    /\ handlers[h].pc = "idle"
    /\ UNCHANGED <<CURR, TODAY, LAST_RESET_DAY, LOCK, stateFile, tmpFile,
                   sinceCrossing>>
    /\ IF p.type = "invalid"
       THEN UNCHANGED <<handlers, mainPc>>
       ELSE LET m == _coerce_services(p, now) IN
            IF m.raised
            THEN /\ mainPc' = "raised"
                 /\ handlers' = [handlers EXCEPT ![h].payload = p]
            ELSE IF m.ts = None
            THEN UNCHANGED <<handlers, mainPc>>
            ELSE /\ handlers' = [handlers EXCEPT ![h] =
                        [pc |-> "lock", payload |-> p, entered |-> m.entered,
                         current |-> m.current, today |-> m.today]]
                 /\ UNCHANGED mainPc

\* Variant of the acquisition that does not wait for LOCK.
on_message_acquire_no_wait(h) ==
    /\ mainPc = "loop"
    /\ handlers[h].pc = "lock"
    /\ LOCK' = TRUE
    /\ SetHandler(h, "body")
    /\ UNCHANGED <<CURR, TODAY, LAST_RESET_DAY, stateFile, tmpFile, mainPc,
                   sinceCrossing>>

\* Line 97: with LOCK
on_message_acquire(h) ==
    /\ mainPc = "loop"
    /\ handlers[h].pc = "lock"
    /\ LOCK = FALSE
    /\ LOCK' = TRUE
    /\ SetHandler(h, "body")
    /\ UNCHANGED <<CURR, TODAY, LAST_RESET_DAY, stateFile, tmpFile, mainPc,
                   sinceCrossing>>

\* Lines 98-114: the reset check and the merge
on_message_body(h) ==
    /\ mainPc = "loop"
    /\ handlers[h].pc = "body"
    /\ LET r == _ensure_reset_if_needed(TODAY, LAST_RESET_DAY, now)
           g == merge(CURR, r.TODAY, handlers[h])
       IN  /\ CURR' = g.CURR
           /\ TODAY' = g.TODAY
           /\ LAST_RESET_DAY' = r.LAST_RESET_DAY
           /\ SetHandler(h, IF g.changed THEN "write_open" ELSE "unlock")
    /\ sinceCrossing' = sinceCrossing \cup handlers[h].entered
                                      \cup handlers[h].today
    /\ UNCHANGED <<LOCK, stateFile, tmpFile, mainPc>>

\* Line 115: _write_state()
on_message_write_open(h) ==
    /\ mainPc = "loop"
    /\ handlers[h].pc = "write_open"
    /\ write_state_open
    /\ SetHandler(h, "write_dump")
    /\ UNCHANGED <<CURR, TODAY, LAST_RESET_DAY, LOCK, mainPc, sinceCrossing>>
on_message_write_dump(h) ==
    /\ mainPc = "loop"
    /\ handlers[h].pc = "write_dump"
    /\ write_state_dump
    /\ SetHandler(h, "write_replace")
    /\ UNCHANGED <<CURR, TODAY, LAST_RESET_DAY, LOCK, mainPc, sinceCrossing>>
on_message_write_replace(h) ==
    /\ mainPc = "loop"
    /\ handlers[h].pc = "write_replace"
    /\ write_state_replace
    /\ SetHandler(h, "unlock")
    /\ UNCHANGED <<CURR, TODAY, LAST_RESET_DAY, LOCK, mainPc, sinceCrossing>>

\* The end of the with block: LOCK is released and on_message returns.
on_message_release(h) ==
    /\ mainPc = "loop"
    /\ handlers[h].pc = "unlock"
    /\ LOCK' = FALSE
    /\ handlers' = [handlers EXCEPT ![h] = IdleHandler]
    /\ UNCHANGED <<CURR, TODAY, LAST_RESET_DAY, stateFile, tmpFile, mainPc,
                   sinceCrossing>>

\* --- main ---------------------------------------------------------------
\* Line 120: _load_state()
main_load_state ==
    /\ mainPc = "load"
    /\ IF stateFile.kind = "json"
       THEN /\ CURR' = stateFile.current
            /\ TODAY' = stateFile.today
       ELSE /\ CURR' = {}
            /\ TODAY' = {}
    /\ LAST_RESET_DAY' = _local_day(now)
    /\ mainPc' = "ensure_reset"
    /\ UNCHANGED <<LOCK, stateFile, tmpFile, handlers, sinceCrossing>>

\* Line 121: _ensure_reset_if_needed()
main_ensure_reset ==
    /\ mainPc = "ensure_reset"
    /\ LET r == _ensure_reset_if_needed(TODAY, LAST_RESET_DAY, now)
       IN  /\ TODAY' = r.TODAY
           /\ LAST_RESET_DAY' = r.LAST_RESET_DAY
    /\ mainPc' = "write_open"
    /\ UNCHANGED <<CURR, LOCK, stateFile, tmpFile, handlers, sinceCrossing>>

\* Line 122: _write_state()
main_write_open ==
    /\ mainPc = "write_open"
    /\ write_state_open
    /\ mainPc' = "write_dump"
    /\ UNCHANGED <<CURR, TODAY, LAST_RESET_DAY, LOCK, handlers, sinceCrossing>>
main_write_dump ==
    /\ mainPc = "write_dump"
    /\ write_state_dump
    /\ mainPc' = "write_replace"
    /\ UNCHANGED <<CURR, TODAY, LAST_RESET_DAY, LOCK, handlers, sinceCrossing>>
\* ... and lines 124-131: the client connects and loop_forever dispatches
\* the messages
main_write_replace ==
    /\ mainPc = "write_replace"
    /\ write_state_replace
    /\ mainPc' = "loop"
    /\ UNCHANGED <<CURR, TODAY, LAST_RESET_DAY, LOCK, handlers, sinceCrossing>>

\* The process ends (an exception, an interrupt, a kill) and is started
\* again: the module is loaded anew (lines 14-17); the files stay.
Restart ==
    /\ mainPc \in {"load", "ensure_reset", "write_open", "write_dump",
                   "write_replace", "loop", "raised"}
    /\ CURR' = {}
    /\ TODAY' = {}
    /\ LAST_RESET_DAY' = None
    /\ LOCK' = FALSE
    /\ handlers' = [h \in Handlers |-> IdleHandler]
    /\ mainPc' = "load"
    /\ UNCHANGED <<stateFile, tmpFile, sinceCrossing>>

\* The module as loaded (lines 14-17), before main() runs.
SidecarLoaded ==
    /\ CURR = {}
    /\ TODAY = {}
    /\ LAST_RESET_DAY = None
    /\ LOCK = FALSE
    /\ handlers = [h \in Handlers |-> IdleHandler]
    /\ mainPc = "load"
    /\ tmpFile = MissingFile
    /\ sinceCrossing = {}

\* ------------------------------------------------------------------------
\* The detection loop: main() of mailcam_detector_onnx.py
\* ------------------------------------------------------------------------
STATE_TOPIC == "mailcam/state"
DETAIL_TOPIC == "mailcam/details"
SUMMARY_TOPIC == "mailcam/daily_summary"
CarrierTopic(c) == <<"mailcam/carriers", c>>

\* CARRIER_TRACKER.carriers = sorted(ALLOW_LABELS), as a list
CarrierList == <<"ups", "usps">>

NoImage == "None"
Images == {"image"}

\* What run_detection may return: lists of at most MaxHits hits, each with a
\* label of ALLOW_LABELS (line 422).
HitLists == UNION {[1..n -> carriers] : n \in 0..MaxHits}

\* Which of the publish calls of one publish_results raise: the state call,
\* the details call, the k-th carrier call (0: none), the summary call.
PublishFailures ==
    [state : BOOLEAN, details : BOOLEAN, carrier : 0..Len(CarrierList),
     summary : BOOLEAN]

\* One call of client.publish: what was passed, and whether the call
\* returned (ok) or raised.
Published(topic, payload, ok) == [topic |-> topic, payload |-> payload, ok |-> ok]

\* publish_carrier_states: one call per carrier, in order, up to the first
\* call that raises; the exception is caught inside.
publish_carrier_states(self, failAt) ==
    LET n == IF failAt = 0 THEN Len(CarrierList) ELSE failAt IN
    [i \in 1..n |->
        Published(CarrierTopic(CarrierList[i]),
                  IF is_detected(self, CarrierList[i]).ret THEN "yes" ELSE "no",
                  i # failAt)]

\* publish_daily_summary: one call; the exception is caught inside.
publish_daily_summary(self, fail) ==
    <<Published(SUMMARY_TOPIC, get_summary(self).ret, ~fail)>>

\* publish_results: state, details, carrier states, summary; an exception of
\* the state or the details call ends it.
publish_results(self, state, details, f) ==
    IF f.state
    THEN <<Published(STATE_TOPIC, state, FALSE)>>
    ELSE IF f.details
    THEN <<Published(STATE_TOPIC, state, TRUE),
           Published(DETAIL_TOPIC, details, FALSE)>>
    ELSE <<Published(STATE_TOPIC, state, TRUE),
           Published(DETAIL_TOPIC, details, TRUE)>>
         \o publish_carrier_states(self, f.carrier)
         \o publish_daily_summary(self, f.summary)

\* The details of a failed cycle (lines 600-604 and 650-654) and of a
\* completed one (lines 625-635).
ErrorDetails(i) ==
    [error |-> TRUE, state |-> "", iteration |-> i, hits |-> <<>>, hit_count |-> 0]
HitDetails(state, i, h) ==
    [error |-> FALSE, state |-> state, iteration |-> i, hits |-> h,
     hit_count |-> Len(h)]

\* Variant of the state choice that reports a delivery on every frame.
delivery_state_always(h) == "Delivered"

\* Lines 619-622
delivery_state(h) == IF h # <<>> THEN "Delivered" ELSE "Not delivered"

\* Lines 613-615: mark_detected for every hit, in order, with one timestamp.
RECURSIVE track_hits(_, _, _, _)
track_hits(self, h, ts, t) ==
    IF h = <<>> THEN self
    ELSE LET r == mark_detected(self, Head(h).label, ts, t)
         IN  track_hits([detections |-> r.detections,
                         current_day |-> r.current_day], Tail(h), ts, t)

\* Lines 586-593: a cycle starts; check_and_reset, and on a reset the
\* carrier states and the summary are published.
loop_check_reset ==
    /\ loopPc = "check"
    /\ iteration < MaxIter
    /\ iteration' = iteration + 1
    /\ LET r == check_and_reset(Self, now) IN
       /\ detections' = r.detections
       /\ current_day' = r.current_day
       /\ IF r.ret
          THEN \E f \in PublishFailures :
                  pubLog' = publish_carrier_states(r, f.carrier)
                            \o publish_daily_summary(r, f.summary)
          ELSE pubLog' = <<>>
    /\ img' = NoImage
    /\ hits' = <<>>
    /\ exc' = FALSE
    /\ loopPc' = "fetch"
    /\ UNCHANGED <<current_timestamp, lastCall>>

\* Lines 596-605: fetch_image(); without a frame the state is "Unknown".
loop_fetch ==
    /\ loopPc = "fetch"
    /\ \E i \in Images \cup {NoImage} :
        /\ img' = i
        /\ IF i = NoImage
           THEN /\ \E f \in PublishFailures :
                      pubLog' = pubLog \o
                          publish_results(Self, "Unknown", ErrorDetails(iteration), f)
                /\ loopPc' = "sleep"
           ELSE /\ pubLog' = pubLog
                /\ loopPc' = "detect"
    /\ UNCHANGED <<iteration, hits, exc, current_timestamp, detections,
                   current_day, lastCall>>

\* Lines 608-638: run_detection returns the hits; they are tracked and the
\* state is published.
loop_detect_ok ==
    /\ loopPc = "detect"
    /\ \E h \in HitLists :
        LET s == track_hits(Self, [i \in 1..Len(h) |-> [label |-> h[i]]], now, now)
            state == delivery_state(h)
        IN  /\ hits' = h
            /\ current_timestamp' = now
            /\ detections' = s.detections
            /\ current_day' = s.current_day
            /\ \E f \in PublishFailures :
                  pubLog' = pubLog \o
                      publish_results(s, state, HitDetails(state, iteration, h), f)
    /\ loopPc' = "sleep"
    /\ UNCHANGED <<iteration, img, exc, lastCall>>

\* Variant of the handler of a raising run_detection that lets the
\* exception leave the while loop.
loop_detect_raises_uncaught ==
    /\ loopPc = "detect"
    /\ exc' = TRUE
    /\ loopPc' = "stopped"
    /\ UNCHANGED <<iteration, img, hits, current_timestamp, pubLog,
                   detections, current_day, lastCall>>

\* Lines 645-655: run_detection raises; the state is "Unknown".
loop_detect_raises ==
    /\ loopPc = "detect"
    /\ exc' = TRUE
    /\ \E f \in PublishFailures :
          pubLog' = pubLog \o
              publish_results(Self, "Unknown", ErrorDetails(iteration), f)
    /\ loopPc' = "sleep"
    /\ UNCHANGED <<iteration, img, hits, current_timestamp, detections,
                   current_day, lastCall>>

\* Lines 657-660: the sleep until the next cycle.
loop_sleep ==
    /\ loopPc = "sleep"
    /\ loopPc' = "check"
    /\ UNCHANGED <<iteration, img, hits, exc, current_timestamp, pubLog,
                   detections, current_day, lastCall>>

\* Lines 661-663 and 668: KeyboardInterrupt ends the loop.
loop_interrupt ==
    /\ loopPc # "stopped"
    /\ loopPc' = "stopped"
    /\ UNCHANGED <<iteration, img, hits, exc, current_timestamp, pubLog,
                   detections, current_day, lastCall>>

\* main() before the loop (lines 582-583).
LoopStart ==
    /\ loopPc = "check"
    /\ iteration = 0
    /\ img = NoImage
    /\ hits = <<>>
    /\ exc = FALSE
    /\ current_timestamp = None
    /\ pubLog = <<>>

\* The local clock moves on.
Tick ==
    /\ \E t \in Times : t > now /\ now' = t
    /\ UNCHANGED trackerVars
    /\ UNCHANGED <<CURR, TODAY, LAST_RESET_DAY, LOCK, stateFile, tmpFile,
                   mainPc, handlers>>
    /\ UNCHANGED loopVars
    /\ UNCHANGED auxVars
    /\ sinceCrossing' = IF CrossesReset(now, now') THEN {} ELSE sinceCrossing

\* ------------------------------------------------------------------------
\* SpecTracker: the tracker under arbitrary sequences of calls
\* ------------------------------------------------------------------------
CarrierArgs == carriers \cup UnknownCarriers
\* timestamp arguments: omitted (None), 0, or the time of an event up to now
TimestampArgs == {None, 0} \cup {t \in Times : t <= now}
\* The tracker is built on the first date; later dates are reached by Tick.
StartTimes == {t \in Times : DateOf(t) = 1}

TrackerInit ==
    /\ now \in StartTimes
    /\ detections = tracker_init(now).detections
    /\ current_day = tracker_init(now).current_day
    /\ lastCall = [op |-> "__init__", ret |-> FALSE, summary |-> NoSummary]
    /\ SidecarLoaded
    /\ stateFile = MissingFile
    /\ LoopStart
    /\ AuxIdle

CheckAndResetStep ==
    /\ Call("check_and_reset", check_and_reset(Self, now))
    /\ UNCHANGED now
    /\ UNCHANGED sidecarVars
    /\ UNCHANGED loopVars
    /\ UNCHANGED auxVars
MarkDetectedStep(c, ts) ==
    /\ Call("mark_detected", mark_detected(Self, c, ts, now))
    /\ UNCHANGED now
    /\ UNCHANGED sidecarVars
    /\ UNCHANGED loopVars
    /\ UNCHANGED auxVars
IsDetectedStep(c) ==
    /\ Call("is_detected", is_detected(Self, c))
    /\ UNCHANGED now
    /\ UNCHANGED sidecarVars
    /\ UNCHANGED loopVars
    /\ UNCHANGED auxVars
GetSummaryStep ==
    /\ Call("get_summary", get_summary(Self))
    /\ UNCHANGED now
    /\ UNCHANGED sidecarVars
    /\ UNCHANGED loopVars
    /\ UNCHANGED auxVars

TrackerCheckAndReset == CheckAndResetStep
TrackerMarkDetected ==
    \E c \in CarrierArgs, ts \in TimestampArgs : MarkDetectedStep(c, ts)
TrackerIsDetected == \E c \in CarrierArgs : IsDetectedStep(c)
TrackerGetSummary == GetSummaryStep

TrackerNext ==
    \/ Tick
    \/ TrackerCheckAndReset
    \/ TrackerMarkDetected
    \/ TrackerIsDetected
    \/ TrackerGetSummary

SpecTracker == TrackerInit /\ [][TrackerNext]_vars

\* C1: mark_detected is idempotent per tracker day.  For a tracked carrier the
\* first call (no timestamp stored) returns True and stores the call's
\* timestamp (the argument, or the current time when the argument is omitted
\* or falsy, as `timestamp or time.time()` gives it); every later call
\* returns False and changes nothing; a stored timestamp changes only by a
\* check_and_reset that returns True; and get_summary reports the stored
\* (first) timestamp.
C1_MarkDetectedIdempotent ==
    [][ /\ \A c \in carriers :
            \A ts \in TimestampArgs :
                MarkDetectedStep(c, ts) =>
                    IF detections[c] = None
                    THEN /\ lastCall'.ret = TRUE
                         /\ detections'[c] = (IF ts \in {None, 0} THEN now ELSE ts)
                    ELSE /\ lastCall'.ret = FALSE
                         /\ detections' = detections
        /\ \A c \in carriers :
            (detections[c] # None /\ detections'[c] # detections[c]) =>
                /\ lastCall'.op = "check_and_reset"
                /\ lastCall'.ret = TRUE
                /\ detections'[c] = None
        /\ GetSummaryStep =>
            \A c \in carriers :
                detections[c] # None =>
                    /\ lastCall'.summary.carriers[c].detected = TRUE
                    /\ lastCall'.summary.carriers[c].timestamp = detections[c]
      ]_vars

\* A second mark_detected has returned False while the carrier keeps a
\* timestamp older than the clock.
C1_Witness ==
    /\ lastCall.op = "mark_detected"
    /\ lastCall.ret = FALSE
    /\ \E c \in carriers : detections[c] # None /\ detections[c] < now

\* The day window the clock reading t lies in, in the spec's words.
DayWindow(t) == IF HourOf(t) >= reset_hour THEN DateOf(t) ELSE DateOf(t) - 1

\* C2: crossing the reset hour clears all carriers exactly once.  The
\* tracker's day is never ahead of the clock's day window; a check_and_reset
\* called when the clock has crossed into a later window returns True, sets
\* every detection to None and adopts the new day; a check_and_reset called
\* when the tracker already is in the clock's window returns False and
\* changes nothing.
C2_ResetExactlyOnce ==
    [][ /\ current_day <= DayWindow(now)
        /\ current_day' <= DayWindow(now')
        /\ CheckAndResetStep =>
            IF current_day < DayWindow(now)
            THEN /\ lastCall'.ret = TRUE
                 /\ \A c \in carriers : detections'[c] = None
                 /\ current_day' = DayWindow(now)
            ELSE /\ lastCall'.ret = FALSE
                 /\ detections' = detections
                 /\ current_day' = current_day
      ]_vars

\* After a reset (the tracker has left its first day) a detection is stored
\* and a further check_and_reset has returned False, leaving it in place.
C2_Witness ==
    /\ lastCall.op = "check_and_reset"
    /\ lastCall.ret = FALSE
    /\ current_day > 1
    /\ \E c \in carriers : detections[c] # None

\* C4: mark_detected with a carrier outside the configured list returns
\* False and leaves the tracker unchanged, and the key set of detections is
\* the configured carrier list in every state.
C4_UnknownCarrierRejected ==
    [][ /\ DOMAIN detections' = carriers
        /\ \A c \in UnknownCarriers :
            \A ts \in TimestampArgs :
                MarkDetectedStep(c, ts) =>
                    /\ lastCall'.ret = FALSE
                    /\ detections' = detections
                    /\ current_day' = current_day
      ]_vars

\* mark_detected has returned False although no carrier is detected: the
\* call was for an unknown carrier.
C4_Witness ==
    /\ lastCall.op = "mark_detected"
    /\ lastCall.ret = FALSE
    /\ \A c \in carriers : detections[c] = None
    /\ DOMAIN detections = carriers

\* ------------------------------------------------------------------------
\* SpecPoll: the tracker driven as the detection loop drives it, one poll
\* cycle (check_and_reset, then mark_detected with the current time) per hit.
\* ------------------------------------------------------------------------
PollStep(c) ==
    LET r1 == check_and_reset(Self, now)
        r2 == mark_detected(r1, c, now, now)
    IN  /\ Call("mark_detected", r2)
        /\ UNCHANGED now
        /\ UNCHANGED sidecarVars
        /\ UNCHANGED loopVars
        /\ UNCHANGED auxVars

Poll == \E c \in carriers : PollStep(c)

PollNext ==
    \/ Tick
    \/ Poll

SpecPoll == TrackerInit /\ [][PollNext]_vars

\* C3: after a poll at local time t the tracker's current day is the
\* calendar date of t when hour(t) >= reset_hour and the date before
\* otherwise; a poll at 02:59 of a date on an undetected carrier records a
\* first detection, and a poll at 04:01 of the same date records a first
\* detection again for a carrier detected at 02:59 (mark_detected returns
\* True both times).
C3_DayBoundary ==
    [][ \A c \in carriers :
          PollStep(c) =>
            /\ current_day' = (IF HourOf(now) >= reset_hour
                               THEN DateOf(now) ELSE DateOf(now) - 1)
            /\ \A d \in 1..MaxDay :
                /\ (now = At(d, 179) /\ detections[c] = None) =>
                      (lastCall'.ret = TRUE /\ detections'[c] = At(d, 179))
                /\ (now = At(d, 241) /\ detections[c] = At(d, 179)) =>
                      (lastCall'.ret = TRUE /\ detections'[c] = At(d, 241))
      ]_vars

\* The carrier was detected by the poll at 02:59 and the clock now reads
\* 04:01 of the same date, the tracker still being in the earlier day.
C3_Witness ==
    \E d \in 1..MaxDay :
        /\ now = At(d, 241)
        /\ current_day = d - 1
        /\ \E c \in carriers : detections[c] = At(d, 179)

\* ------------------------------------------------------------------------
\* SpecSidecar: the sidecar process, its message handlers and the clock
\* ------------------------------------------------------------------------
SidecarInit ==
    /\ now \in StartTimes
    /\ SidecarLoaded
    /\ stateFile \in {MissingFile, PartialFile}
    /\ LoopStart
    /\ AuxIdle
    /\ detections = tracker_init(now).detections
    /\ current_day = tracker_init(now).current_day
    /\ lastCall = [op |-> "__init__", ret |-> FALSE, summary |-> NoSummary]

notSidecarVars == <<now, detections, current_day, lastCall,
                    loopPc, iteration, img, hits, exc, current_timestamp,
                    pubLog, nmsPc, xyxy, scores, iou_threshold, idx, keep,
                    tsPc, frame, max_vehicle_crops, det_index, detLog,
                    proposals, used_det_model, todo, brandLog, brand_hits,
                    schedPc, mono, start, next_time, sleep_time, cycles,
                    workLog>>

OnMessageDecode ==
    /\ \E h \in Handlers, p \in Payloads : on_message_decode(h, p)
    /\ UNCHANGED notSidecarVars
OnMessageAcquire ==
    /\ \E h \in Handlers : on_message_acquire(h)
    /\ UNCHANGED notSidecarVars
OnMessageBody ==
    /\ \E h \in Handlers : on_message_body(h)
    /\ UNCHANGED notSidecarVars
OnMessageWriteOpen ==
    /\ \E h \in Handlers : on_message_write_open(h)
    /\ UNCHANGED notSidecarVars
OnMessageWriteDump ==
    /\ \E h \in Handlers : on_message_write_dump(h)
    /\ UNCHANGED notSidecarVars
OnMessageWriteReplace ==
    /\ \E h \in Handlers : on_message_write_replace(h)
    /\ UNCHANGED notSidecarVars
OnMessageRelease ==
    /\ \E h \in Handlers : on_message_release(h)
    /\ UNCHANGED notSidecarVars
MainLoadState == main_load_state /\ UNCHANGED notSidecarVars
MainEnsureReset == main_ensure_reset /\ UNCHANGED notSidecarVars
MainWriteOpen == main_write_open /\ UNCHANGED notSidecarVars
MainWriteDump == main_write_dump /\ UNCHANGED notSidecarVars
MainWriteReplace == main_write_replace /\ UNCHANGED notSidecarVars
ProcessRestart == Restart /\ UNCHANGED notSidecarVars

SidecarNext ==
    \/ Tick
    \/ OnMessageDecode
    \/ OnMessageAcquire
    \/ OnMessageBody
    \/ OnMessageWriteOpen
    \/ OnMessageWriteDump
    \/ OnMessageWriteReplace
    \/ OnMessageRelease
    \/ MainLoadState
    \/ MainEnsureReset
    \/ MainWriteOpen
    \/ MainWriteDump
    \/ MainWriteReplace
    \/ ProcessRestart

SpecSidecar == SidecarInit /\ [][SidecarNext]_vars

\* The two shapes of message on_message accepts.
EventShaped(p) == p.type = "object" /\ p.has \cap EventKeys # {}
ServicesShaped(p) ==
    p.type = "object" /\ p.has \cap EventKeys = {} /\ "services" \in p.has
\* No reset, load or restart happens in the step.
NoResetInStep == LAST_RESET_DAY' = LAST_RESET_DAY

\* C5: services-shaped messages never lose an entry.  A handler that merges
\* a services-shaped message, no day-boundary reset being due, leaves CURR
\* and TODAY as their old members together with the lower-cased services;
\* and no step of any other handler, in any interleaving, removes a member
\* of CURR or TODAY unless it is a reset, a restart or the merge of an
\* event-shaped message.
C5_ServicesNeverLost ==
    [][ /\ \A h \in Handlers :
            ( /\ on_message_body(h)
              /\ ServicesShaped(handlers[h].payload)
              /\ NoResetInStep )
            => /\ CURR' = CURR \cup LowerSet(handlers[h].payload.services)
               /\ TODAY' = TODAY \cup LowerSet(handlers[h].payload.services)
        /\ ( /\ NoResetInStep
             /\ ~ \E h \in Handlers :
                    on_message_body(h) /\ EventShaped(handlers[h].payload) )
            => (CURR \subseteq CURR' /\ TODAY \subseteq TODAY')
      ]_vars

\* One handler has merged and persisted {"services": ["FedEx"]} while the
\* other, having decoded a services message of its own, waits for LOCK;
\* both sets hold the earlier "ups" and the new "fedex".
C5_Witness ==
    \E h1, h2 \in Handlers :
        /\ h1 # h2
        /\ handlers[h1].pc = "unlock"
        /\ handlers[h1].payload = ServicesMsg({"FedEx"})
        /\ handlers[h2].pc = "lock"
        /\ ServicesShaped(handlers[h2].payload)
        /\ {"ups", "fedex"} \subseteq CURR
        /\ {"ups", "fedex"} \subseteq TODAY
        /\ stateFile = JsonFile(CURR, TODAY)

\* C6: an event-shaped message that carries only an explicit `current`
\* array, of any length, makes CURR exactly the lower-cased array and leaves
\* TODAY unchanged (no reset being due).
C6_CurrentReplaces ==
    [][ \A h \in Handlers :
            ( /\ on_message_body(h)
              /\ handlers[h].payload.type = "object"
              /\ handlers[h].payload.has = {"current"}
              /\ NoResetInStep )
            => /\ CURR' = LowerSet(handlers[h].payload.current)
               /\ TODAY' = TODAY
      ]_vars

\* C7: whenever main has finished its startup and no handler holds LOCK,
\* the state file lists exactly the in-memory CURR and TODAY.
C7_FileMatchesMemory ==
    (mainPc = "loop" /\ LOCK = FALSE) => stateFile = JsonFile(CURR, TODAY)

\* C8: after a handler has run the reset check and the merge of an accepted
\* message, TODAY holds no carrier reported before the clock last crossed
\* RESET_H.
C8_TodayClearedAfterCrossing ==
    [][ \A h \in Handlers : on_message_body(h) => TODAY' \subseteq sinceCrossing'
      ]_vars

\* C9: a payload that is no JSON, or a JSON value of neither shape (an
\* object without the schema keys, or no object at all), makes on_message
\* return without raising and leaves CURR, TODAY, LAST_RESET_DAY and the
\* state file unchanged.
C9_RejectedIsNoOp ==
    [][ \A h \in Handlers :
          \A p \in Payloads :
            ( /\ ~ EventShaped(p)
              /\ ~ ServicesShaped(p)
              /\ on_message_decode(h, p) )
            => /\ mainPc' # "raised"
               /\ handlers'[h].pc = "idle"
               /\ UNCHANGED <<CURR, TODAY, LAST_RESET_DAY, stateFile>>
      ]_vars

\* ------------------------------------------------------------------------
\* SpecLoop: the detection loop with its tracker and the clock
\* ------------------------------------------------------------------------
LoopInit ==
    /\ now \in StartTimes
    /\ detections = tracker_init(now).detections
    /\ current_day = tracker_init(now).current_day
    /\ lastCall = [op |-> "__init__", ret |-> FALSE, summary |-> NoSummary]
    /\ SidecarLoaded
    /\ stateFile = MissingFile
    /\ LoopStart
    /\ AuxIdle

LoopCheckReset == loop_check_reset /\ UNCHANGED <<now, sidecarVars, auxVars>>
LoopFetch == loop_fetch /\ UNCHANGED <<now, sidecarVars, auxVars>>
LoopDetectOk == loop_detect_ok /\ UNCHANGED <<now, sidecarVars, auxVars>>
LoopDetectRaises == loop_detect_raises /\ UNCHANGED <<now, sidecarVars, auxVars>>
LoopSleep == loop_sleep /\ UNCHANGED <<now, sidecarVars, auxVars>>
LoopInterrupt == loop_interrupt /\ UNCHANGED <<now, sidecarVars, auxVars>>

LoopNext ==
    \/ Tick
    \/ LoopCheckReset
    \/ LoopFetch
    \/ LoopDetectOk
    \/ LoopDetectRaises
    \/ LoopSleep
    \/ LoopInterrupt

SpecLoop == LoopInit /\ [][LoopNext]_vars

\* The calls of client.publish on the state topic made in this cycle.
StateCalls == {i \in DOMAIN pubLog : pubLog[i].topic = STATE_TOPIC}
DetailCalls == {i \in DOMAIN pubLog : pubLog[i].topic = DETAIL_TOPIC}
CycleFailed == img = NoImage \/ exc

\* C10: in every cycle exactly one state value is published (one call of
\* client.publish on the state topic, made by the time the cycle sleeps and
\* none before).  The value is "Unknown", and the details carry an error
\* field, if and only if the frame fetch returned nothing or run_detection
\* raised; otherwise it is "Delivered" for a non-empty hit list and
\* "Not delivered" for an empty one.
C10_OneStatePerCycle ==
    /\ loopPc \in {"fetch", "detect"} => StateCalls = {}
    /\ loopPc = "sleep" =>
        /\ Cardinality(StateCalls) = 1
        /\ \A i \in StateCalls :
            /\ (pubLog[i].payload = "Unknown") <=> CycleFailed
            /\ ~ CycleFailed =>
                  pubLog[i].payload =
                      (IF Len(hits) > 0 THEN "Delivered" ELSE "Not delivered")
            /\ pubLog[i].ok => Cardinality(DetailCalls) = 1
        /\ \A j \in DetailCalls : pubLog[j].payload.error <=> CycleFailed

\* A cycle with hits has published "Delivered" after an earlier cycle of
\* the run.
C10_Witness ==
    /\ loopPc = "sleep"
    /\ iteration > 1
    /\ Len(hits) > 0
    /\ \E i \in StateCalls : pubLog[i].payload = "Delivered" /\ pubLog[i].ok
    /\ \E j \in DetailCalls : pubLog[j].payload.hit_count = Len(hits)

\* ------------------------------------------------------------------------
\* SpecLoopFair: the detection loop as a running process
\* ------------------------------------------------------------------------
\* CARRIER_TRACKER is built when the module is imported (line 149), at t0;
\* main enters the loop at that time or later (lines 572-583), so the first
\* check_and_reset may already find a reset due.
LoopLiveInit ==
    /\ \E t0 \in StartTimes :
        /\ now \in {t \in Times : t >= t0}
        /\ detections = tracker_init(t0).detections
        /\ current_day = tracker_init(t0).current_day
    /\ lastCall = [op |-> "__init__", ret |-> FALSE, summary |-> NoSummary]
    /\ SidecarLoaded
    /\ stateFile = MissingFile
    /\ LoopStart
    /\ AuxIdle

\* The steps of the loop alone; the clock reading is the one of the start.
LoopLiveNext ==
    \/ LoopCheckReset
    \/ LoopFetch
    \/ LoopDetectOk
    \/ LoopDetectRaises
    \/ LoopSleep
    \/ LoopInterrupt

\* The interpreter goes on executing the statements of main: fetch_image
\* returns (its request has a timeout), run_detection returns or raises,
\* time.sleep returns.  Nothing obliges an interrupt to arrive.
SpecLoopFair ==
    /\ LoopLiveInit
    /\ [][LoopLiveNext]_vars
    /\ WF_vars(LoopCheckReset)
    /\ WF_vars(LoopFetch)
    /\ WF_vars(LoopDetectOk \/ LoopDetectRaises)
    /\ WF_vars(LoopSleep)

\* Some call of client.publish of this cycle raised.
PublishRaised == \E i \in DOMAIN pubLog : ~ pubLog[i].ok
TrackerUnchanged == UNCHANGED <<detections, current_day>>

\* C17: no failure ends the loop or touches the tracker.  A fetch that
\* returns no frame and a run_detection that raises leave detections and
\* current_day as they were and take the loop to its sleep; the tracker
\* after a cycle does not depend on which publish calls raised; the loop
\* stops by an interrupt only; and every cycle, failed or not, reaches its
\* sleep, after which the loop is back at the top of the while and the next
\* cycle starts, unless an interrupt ends the process.
C17_LoopSurvivesFailures ==
    /\ [][ /\ (loop_fetch /\ img' = NoImage)
                => (loopPc' = "sleep" /\ TrackerUnchanged)
           /\ (~ exc /\ exc')
                => (loopPc' = "sleep" /\ TrackerUnchanged)
           /\ (loopPc = "detect" /\ loopPc' = "sleep" /\ ~ exc')
                => LET s == track_hits(Self, [i \in 1..Len(hits') |->
                                               [label |-> hits'[i]]], now, now)
                   IN  detections' = s.detections /\ current_day' = s.current_day
           /\ (loopPc = "check" /\ loopPc' = "fetch")
                => LET r == check_and_reset(Self, now)
                   IN  detections' = r.detections /\ current_day' = r.current_day
           /\ (loopPc # "stopped" /\ loopPc' = "stopped") => loop_interrupt
         ]_vars
    /\ \A k \in 0..(MaxIter - 1) :
          (loopPc = "check" /\ iteration = k)
              ~> ((loopPc = "sleep" /\ iteration = k + 1) \/ loopPc = "stopped")
    /\ \A k \in 1..MaxIter :
          (loopPc = "sleep" /\ iteration = k)
              ~> ((loopPc = "check" /\ iteration = k) \/ loopPc = "stopped")

\* The first cycle ended with run_detection raising and with the state call
\* of the bus raising too; the loop has slept and is back at the top of the
\* while, the tracker as the constructor left it.
C17_Witness ==
    /\ loopPc = "check"
    /\ iteration = 1
    /\ exc
    /\ PublishRaised
    /\ detections = tracker_init(now).detections

\* ------------------------------------------------------------------------
\* nms (mailcam_detector_onnx.py, lines 228-253)
\*
\* Box coordinates are floats in the source.  Here a coordinate is a whole
\* number of thousandths of a pixel, so that an area is a whole number of
\* millionths of a square pixel and the 1e-6 of line 250 is one unit of
\* area.  A threshold is a fraction <<p, q>> with q > 0.  Arithmetic is
\* exact; the rounding of floating point is not followed.
\* ------------------------------------------------------------------------
Epsilon == 1

Max2(a, b) == IF a >= b THEN a ELSE b
Min2(a, b) == IF a <= b THEN a ELSE b

Box(x1, y1, x2, y2) == [x1 |-> x1, y1 |-> y1, x2 |-> x2, y2 |-> y2]
ScaleBox(b, k) == Box(b.x1 * k, b.y1 * k, b.x2 * k, b.y2 * k)

\* Boxes of positive area whose pairs have IoU 0, 1/5, 2/5, 1/2, 4/5 and 1.
BoxShapes ==
    {Box(0, 0, 2, 1), Box(0, 0, 4, 1), Box(0, 0, 5, 1), Box(4, 0, 5, 1)}
\* Sides of a thousandth of a pixel, and of a pixel.
BoxScales == {1, 1000}
ScoreValues == {1, 2, 3}
\* 0.45 (the default), 0.6 and 0.8
Thresholds == {<<9, 20>>, <<3, 5>>, <<4, 5>>}

\* Lines 241-249
inter(a, b) ==
    Max2(0, Min2(a.x2, b.x2) - Max2(a.x1, b.x1))
        * Max2(0, Min2(a.y2, b.y2) - Max2(a.y1, b.y1))
area(b) == (b.x2 - b.x1) * (b.y2 - b.y1)

\* Lines 250-251: iou = inter / (a_i + a_r - inter + 1e-6); iou < threshold
iou_below(a, b, thr) ==
    inter(a, b) * thr[2] < thr[1] * (area(a) + area(b) - inter(a, b) + Epsilon)

\* Line 230: np.argsort(-scores); the order of equal scores is not fixed.
argsort_desc(sc) ==
    {p \in [1..Len(sc) -> 1..Len(sc)] :
        /\ \A i, j \in 1..Len(sc) : i # j => p[i] # p[j]
        /\ \A i, j \in 1..Len(sc) : i < j => sc[p[i]] >= sc[p[j]]}

\* Lines 230-231
nms_argsort ==
    /\ nmsPc = "start"
    /\ idx' \in argsort_desc(scores)
    /\ keep' = <<>>
    /\ nmsPc' = "loop"
    /\ UNCHANGED <<xyxy, scores, iou_threshold>>

\* Variant of the pass that suppresses nothing.
nms_iterate_no_suppression ==
    /\ nmsPc = "loop"
    /\ idx # <<>>
    /\ keep' = Append(keep, Head(idx))
    /\ IF Len(idx) = 1
       THEN idx' = idx /\ nmsPc' = "done"
       ELSE idx' = Tail(idx) /\ nmsPc' = "loop"
    /\ UNCHANGED <<xyxy, scores, iou_threshold>>

\* Lines 233-252: one pass of `while idx.size`
nms_iterate ==
    /\ nmsPc = "loop"
    /\ idx # <<>>
    /\ LET i == Head(idx)
           rest == Tail(idx)
           Below(r) == iou_below(xyxy[i], xyxy[r], iou_threshold)
       IN  /\ keep' = Append(keep, i)
           /\ IF Len(idx) = 1
              THEN idx' = idx /\ nmsPc' = "done"
              ELSE idx' = SelectSeq(rest, Below) /\ nmsPc' = "loop"
    /\ UNCHANGED <<xyxy, scores, iou_threshold>>

\* Lines 233 and 253: idx is empty, return keep
nms_return ==
    /\ nmsPc = "loop"
    /\ idx = <<>>
    /\ nmsPc' = "done"
    /\ UNCHANGED <<xyxy, scores, iou_threshold, idx, keep>>

\* The state of the other components when only a function is called.
ProgramIdle ==
    /\ now = At(1, 0)
    /\ detections = tracker_init(now).detections
    /\ current_day = tracker_init(now).current_day
    /\ lastCall = [op |-> "__init__", ret |-> FALSE, summary |-> NoSummary]
    /\ SidecarLoaded
    /\ stateFile = MissingFile
    /\ LoopStart
programVars == <<now, trackerVars, sidecarVars, loopVars, schedVars>>

\* ------------------------------------------------------------------------
\* SpecNms: nms called on every input within the bounds
\* ------------------------------------------------------------------------
NmsInit ==
    /\ ProgramIdle
    /\ CascadeIdle
    /\ SchedIdle
    /\ nmsPc = "start"
    /\ \E n \in 0..MaxBoxes : \E k \in BoxScales :
        /\ xyxy \in [1..n -> {ScaleBox(b, k) : b \in BoxShapes}]
        /\ scores \in [1..n -> ScoreValues]
    /\ iou_threshold \in Thresholds
    /\ idx = <<>>
    /\ keep = <<>>

NmsArgsort == nms_argsort /\ UNCHANGED <<programVars, cascadeVars>>
NmsIterate == nms_iterate /\ UNCHANGED <<programVars, cascadeVars>>
NmsReturn == nms_return /\ UNCHANGED <<programVars, cascadeVars>>

NmsNext ==
    \/ NmsArgsort
    \/ NmsIterate
    \/ NmsReturn

SpecNms == NmsInit /\ [][NmsNext]_vars

Range(f) == {f[i] : i \in DOMAIN f}
Kept == Range(keep)
Discarded == DOMAIN xyxy \ Kept

\* Intersection over union of two boxes of positive area, against a fraction.
IoUAbove(a, b, thr) ==
    inter(a, b) * thr[2] > thr[1] * (area(a) + area(b) - inter(a, b))
IoUAtLeast(a, b, thr) ==
    inter(a, b) * thr[2] >= thr[1] * (area(a) + area(b) - inter(a, b))

\* C11, with the quotient as line 250 computes it: when nms returns, no two
\* kept boxes have inter / (union + 1e-6) at or above the threshold, the
\* kept list has no repetition and starts with a box of the highest score,
\* every discarded box has IoU at or above the threshold with a kept box of
\* score not lower than its own, and an empty input gives an empty list.
C11_NmsComputedPostcondition ==
    nmsPc = "done" =>
        /\ \A i, j \in Kept :
              i # j => iou_below(xyxy[i], xyxy[j], iou_threshold)
        /\ Cardinality(Kept) = Len(keep)
        /\ xyxy # <<>> =>
              /\ keep # <<>>
              /\ \A j \in DOMAIN scores : scores[keep[1]] >= scores[j]
        /\ \A d \in Discarded : \E k \in Kept :
              /\ scores[k] >= scores[d]
              /\ IoUAtLeast(xyxy[k], xyxy[d], iou_threshold)
        /\ xyxy = <<>> => keep = <<>>

\* Three boxes of pixel size at threshold 0.45: the best one suppresses the
\* second (IoU 0.8) and the third, which the second would have suppressed
\* (IoU 0.5), is kept (IoU 0.4 with the best).
C11_Witness ==
    /\ nmsPc = "done"
    /\ iou_threshold = <<9, 20>>
    /\ Len(xyxy) = 3
    /\ Len(keep) = 2
    /\ xyxy[keep[1]] = Box(0, 0, 5000, 1000)
    /\ xyxy[keep[2]] = Box(0, 0, 2000, 1000)
    /\ \E d \in Discarded : xyxy[d] = Box(0, 0, 4000, 1000)

\* C11 as stated, with the IoU itself: when nms returns, no two kept boxes
\* have IoU above the threshold, a
\* box of the highest score is kept, every discarded box has IoU at or above
\* the threshold with some kept box of score not lower than its own, and an
\* empty input gives an empty kept list.
C11_NmsPostcondition ==
    nmsPc = "done" =>
        /\ \A i, j \in Kept :
              i # j => ~ IoUAbove(xyxy[i], xyxy[j], iou_threshold)
        /\ xyxy # <<>> =>
              \E k \in Kept : \A j \in DOMAIN scores : scores[k] >= scores[j]
        /\ \A d \in Discarded : \E k \in Kept :
              /\ scores[k] >= scores[d]
              /\ IoUAtLeast(xyxy[k], xyxy[d], iou_threshold)
        /\ xyxy = <<>> => keep = <<>>

\* ------------------------------------------------------------------------
\* The two-stage cascade (twostage.py)
\*
\* Coordinates are whole pixels and a confidence is a whole number of
\* hundredths.  What the YOLO models return is the environment's choice.
\* ------------------------------------------------------------------------
\* det_order = [det_model_path, "yolov8n.pt"] (line 75)
det_order == <<"det_model_path", "yolov8n.pt">>
\* allow = allow or ALLOW_DEFAULT (lines 5 and 67)
ALLOW_DEFAULT == {"amazon", "dhl", "fedex", "ups", "usps"}

\* Height and width of the frames.
FrameSides == {1, 16, 40}
\* The values of max_vehicle_crops a caller passes.
CropLimits == -1..MaxCrops

DetBox(lbl, conf, x1, y1, x2, y2, broken) ==
    [lbl |-> lbl, conf |-> conf, x1 |-> x1, y1 |-> y1, x2 |-> x2, y2 |-> y2,
     broken |-> broken]
\* What r.boxes of a stage-1 detector may hold: vehicles of three
\* confidences, a box with a confidence outside [0, 1], a label that is no
\* vehicle, a box too small to crop, and a box whose fields cannot be read.
DetBoxes ==
    {DetBox("truck", 30, 0, 0, 20, 20, FALSE),
     DetBox("truck", 60, 0, 0, 20, 20, FALSE),
     DetBox("truck", 90, 0, 0, 20, 20, FALSE),
     DetBox("truck", 150, 0, 0, 20, 20, FALSE),
     DetBox("cat", 90, 0, 0, 20, 20, FALSE),
     DetBox("truck", 90, 0, 0, 4, 4, FALSE),
     DetBox("truck", 90, 0, 0, 20, 20, TRUE)}
\* What r2.boxes of the brand detector may hold.
BrandBoxes ==
    {DetBox("ups", 50, 0, 0, 8, 8, FALSE),
     DetBox("ups", 50, 0, 0, 0, 0, FALSE),
     DetBox("cat", 50, 0, 0, 8, 8, FALSE)}

\* _veh_label_ok on the labels above (line 13-16: a substring test).
_veh_label_ok(lbl) == lbl \in {"truck"}

Proposal(x1, y1, x2, y2, lbl, conf) ==
    [x1 |-> x1, y1 |-> y1, x2 |-> x2, y2 |-> y2, lbl |-> lbl, conf |-> conf]

\* Lines 32-49: the proposals of one detector's boxes, in the order of the
\* boxes; a box is dropped for a confidence outside [0, 1], a label that is
\* no vehicle, a padded and clipped side under 12, or an exception.
\* pad = int(0.15 * max(x2-x1, y2-y1))
RECURSIVE box_proposals(_, _, _)
box_proposals(boxes, H, W) ==
    IF boxes = <<>> THEN <<>>
    ELSE LET b == Head(boxes)
             pad == (15 * Max2(b.x2 - b.x1, b.y2 - b.y1)) \div 100
             X1 == Max2(0, b.x1 - pad)
             Y1 == Max2(0, b.y1 - pad)
             X2 == Min2(W, b.x2 + pad)
             Y2 == Min2(H, b.y2 + pad)
             ok == /\ ~ b.broken
                   /\ 0 <= b.conf /\ b.conf <= 100
                   /\ _veh_label_ok(b.lbl)
                   /\ X2 - X1 >= 12 /\ Y2 - Y1 >= 12
         IN  (IF ok THEN <<Proposal(X1, Y1, X2, Y2, b.lbl, b.conf)>> ELSE <<>>)
             \o box_proposals(Tail(boxes), H, W)

\* What one detector does: its load fails, its predict raises, or it
\* returns boxes (r.boxes None counts as no boxes).
DetOutcomes ==
    {[kind |-> "load_failed", boxes |-> <<>>],
     [kind |-> "raised", boxes |-> <<>>]}
    \cup {[kind |-> "boxes", boxes |-> b] :
            b \in UNION {[1..n -> DetBoxes] : n \in 0..MaxDet}}

\* Variant of try_detector that returns after the first detector that
\* loads, whatever it found.
try_detector_first_loaded(i, o, H, W) ==
    CASE o.kind = "load_failed" ->
            [next |-> "stage1", det_index |-> i + 1, proposals |-> <<>>,
             used |-> None, log |-> [det |-> i, gave |-> "load_failed", props |-> <<>>]]
      [] o.kind = "raised" ->
            [next |-> "raised_stage1", det_index |-> i, proposals |-> <<>>,
             used |-> None, log |-> [det |-> i, gave |-> "raised", props |-> <<>>]]
      [] OTHER ->
            LET props == box_proposals(o.boxes, H, W) IN
            [next |-> "fallback", det_index |-> i, proposals |-> props,
             used |-> i,
             log |-> [det |-> i, props |-> props,
                      gave |-> IF props # <<>> THEN "some" ELSE "none"]]

\* Lines 21-49: one pass of `for det_path in det_model_paths`
try_detector(i, o, H, W) ==
    CASE o.kind = "load_failed" ->
            [next |-> "stage1", det_index |-> i + 1, proposals |-> <<>>,
             used |-> None, log |-> [det |-> i, gave |-> "load_failed", props |-> <<>>]]
      [] o.kind = "raised" ->
            [next |-> "raised_stage1", det_index |-> i, proposals |-> <<>>,
             used |-> None, log |-> [det |-> i, gave |-> "raised", props |-> <<>>]]
      [] OTHER ->
            LET props == box_proposals(o.boxes, H, W) IN
            IF props # <<>>
            THEN [next |-> "fallback", det_index |-> i, proposals |-> props,
                  used |-> i,
                  log |-> [det |-> i, gave |-> "some", props |-> props]]
            ELSE [next |-> "stage1", det_index |-> i + 1, proposals |-> <<>>,
                  used |-> None,
                  log |-> [det |-> i, gave |-> "none", props |-> <<>>]]

\* _collect_proposals, lines 21-49
collect_proposals_try ==
    /\ tsPc = "stage1"
    /\ det_index <= Len(det_order)
    /\ \E o \in DetOutcomes :
        LET r == try_detector(det_index, o, frame.H, frame.W) IN
        /\ tsPc' = r.next
        /\ det_index' = r.det_index
        /\ proposals' = r.proposals
        /\ used_det_model' = r.used
        /\ detLog' = Append(detLog, r.log)
    /\ UNCHANGED <<frame, max_vehicle_crops, todo, brandLog, brand_hits>>

\* _collect_proposals, line 50: return [], None, {}
collect_proposals_none ==
    /\ tsPc = "stage1"
    /\ det_index > Len(det_order)
    /\ proposals' = <<>>
    /\ used_det_model' = None
    /\ tsPc' = "fallback"
    /\ UNCHANGED <<frame, max_vehicle_crops, det_index, detLog, todo, brandLog,
                   brand_hits>>

\* Variant of center_proposal that takes the whole frame.
center_proposal_whole_frame(H, W) == Proposal(0, 0, W, H, "center", 100)

\* Lines 89-91; int(H/1.6) = floor(5H/8)
center_proposal(H, W) ==
    LET nh == (5 * H) \div 8
        nw == (5 * W) \div 8
        y0 == (H - nh) \div 2
        x0 == (W - nw) \div 2
    IN  Proposal(x0, y0, x0 + nw, y0 + nh, "center", 100)

\* Python's seq[:n]
slice_to(seq, n) ==
    SubSeq(seq, 1, IF n >= 0 THEN Min2(n, Len(seq)) ELSE Max2(0, Len(seq) + n))

\* two_stage_hits, lines 80-91: the fallback to the centre crop
two_stage_fallback ==
    /\ tsPc = "fallback"
    /\ proposals' = IF proposals = <<>>
                    THEN <<center_proposal(frame.H, frame.W)>>
                    ELSE proposals
    /\ tsPc' = "brand"
    /\ UNCHANGED <<frame, max_vehicle_crops, det_index, detLog, used_det_model,
                   todo, brandLog, brand_hits>>

\* two_stage_hits, lines 94-98: the brand model loads
two_stage_load_brand ==
    /\ tsPc = "brand"
    /\ brand_hits' = <<>>
    /\ todo' = slice_to(proposals, max_vehicle_crops)
    /\ tsPc' = "crops"
    /\ UNCHANGED <<frame, max_vehicle_crops, det_index, detLog, proposals,
                   used_det_model, brandLog>>

\* two_stage_hits, line 94: YOLO(brand_model_path) raises
two_stage_load_brand_raises ==
    /\ tsPc = "brand"
    /\ tsPc' = "raised_brand"
    /\ UNCHANGED <<frame, max_vehicle_crops, det_index, detLog, proposals,
                   used_det_model, todo, brandLog, brand_hits>>

\* Lines 106-127: the hits of the brand boxes of one crop
RECURSIVE crop_hits(_, _, _, _)
crop_hits(boxes, p, H, W) ==
    IF boxes = <<>> THEN <<>>
    ELSE LET b == Head(boxes)
             X1 == p.x1 + b.x1
             Y1 == p.y1 + b.y1
             X2 == p.x1 + b.x2
             Y2 == p.y1 + b.y2
             \* area = (X2-X1)*(Y2-Y1)/(W*H) >= area_min_frac = 0.0003
             ok == /\ ~ b.broken
                   /\ 0 <= b.conf /\ b.conf <= 100
                   /\ b.lbl \in ALLOW_DEFAULT
                   /\ (X2 - X1) * (Y2 - Y1) * 10000 >= 3 * W * H
         IN  (IF ok
              THEN <<[label |-> b.lbl, conf |-> b.conf,
                      xyxy |-> <<X1, Y1, X2, Y2>>, via |-> p.lbl]>>
              ELSE <<>>)
             \o crop_hits(Tail(boxes), p, H, W)

\* What brand.predict does on one crop: it raises, or returns boxes.
BrandOutcomes ==
    {[kind |-> "raised", boxes |-> <<>>]}
    \cup {[kind |-> "boxes", boxes |-> b] :
            b \in UNION {[1..n -> BrandBoxes] : n \in 0..1}}

\* Lines 98-122: one pass of `for ... in proposals[:max_vehicle_crops]`
two_stage_crop ==
    /\ tsPc = "crops"
    /\ todo # <<>>
    /\ LET p == Head(todo) IN
       IF p.x2 <= p.x1 \/ p.y2 <= p.y1
       THEN \* crop.size == 0
            /\ todo' = Tail(todo)
            /\ UNCHANGED <<tsPc, brandLog, brand_hits>>
       ELSE \E o \in BrandOutcomes :
            /\ brandLog' = Append(brandLog, p)
            /\ IF o.kind = "raised"
               THEN /\ tsPc' = "raised_brand"
                    /\ UNCHANGED <<todo, brand_hits>>
               ELSE /\ todo' = Tail(todo)
                    /\ brand_hits' =
                          brand_hits \o crop_hits(o.boxes, p, frame.H, frame.W)
                    /\ UNCHANGED tsPc
    /\ UNCHANGED <<frame, max_vehicle_crops, det_index, detLog, proposals,
                   used_det_model>>

\* Lines 129-139: return
two_stage_return ==
    /\ tsPc = "crops"
    /\ todo = <<>>
    /\ tsPc' = "done"
    /\ UNCHANGED <<frame, max_vehicle_crops, det_index, detLog, proposals,
                   used_det_model, todo, brandLog, brand_hits>>

\* ------------------------------------------------------------------------
\* SpecCascade: two_stage_hits called on every frame size and crop limit
\* ------------------------------------------------------------------------
CascadeInit ==
    /\ ProgramIdle
    /\ NmsIdle
    /\ SchedIdle
    /\ tsPc = "stage1"
    /\ frame \in [H : FrameSides, W : FrameSides]
    /\ max_vehicle_crops \in CropLimits
    /\ det_index = 1
    /\ detLog = <<>>
    /\ proposals = <<>>
    /\ used_det_model = None
    /\ todo = <<>>
    /\ brandLog = <<>>
    /\ brand_hits = <<>>

CollectProposalsTry == collect_proposals_try /\ UNCHANGED <<programVars, nmsVars>>
CollectProposalsNone == collect_proposals_none /\ UNCHANGED <<programVars, nmsVars>>
TwoStageFallback == two_stage_fallback /\ UNCHANGED <<programVars, nmsVars>>
TwoStageLoadBrand == two_stage_load_brand /\ UNCHANGED <<programVars, nmsVars>>
TwoStageLoadBrandRaises ==
    two_stage_load_brand_raises /\ UNCHANGED <<programVars, nmsVars>>
TwoStageCrop == two_stage_crop /\ UNCHANGED <<programVars, nmsVars>>
TwoStageReturn == two_stage_return /\ UNCHANGED <<programVars, nmsVars>>

CascadeNext ==
    \/ CollectProposalsTry
    \/ CollectProposalsNone
    \/ TwoStageFallback
    \/ TwoStageLoadBrand
    \/ TwoStageLoadBrandRaises
    \/ TwoStageCrop
    \/ TwoStageReturn

SpecCascade == CascadeInit /\ [][CascadeNext]_vars

\* _collect_proposals has returned to two_stage_hits.
Stage1Returned == tsPc \notin {"idle", "stage1", "raised_stage1"}
SkippedDetector(e) == e.gave \in {"load_failed", "none"}

\* C12, for a call that returns: when stage 1 yielded no proposal,
\* two_stage_hits has exactly one proposal, of size int(H/1.6) x int(W/1.6)
\* and centred in the frame; and if max_vehicle_crops is at least 1 and the
\* frame at least 2 x 2, brand.predict was called exactly once, on it.
C12_FallbackCentreCrop ==
    (tsPc \in {"brand", "crops", "done", "raised_brand"} /\ used_det_model = None) =>
        /\ Len(proposals) = 1
        /\ proposals[1].x2 - proposals[1].x1 = (5 * frame.W) \div 8
        /\ proposals[1].y2 - proposals[1].y1 = (5 * frame.H) \div 8
        /\ proposals[1].x1 = (frame.W - (5 * frame.W) \div 8) \div 2
        /\ proposals[1].y1 = (frame.H - (5 * frame.H) \div 8) \div 2
        /\ ( /\ tsPc = "done"
             /\ max_vehicle_crops >= 1
             /\ frame.H >= 2 /\ frame.W >= 2 )
           => brandLog = proposals

\* Neither detector gave a proposal for a 40 x 16 frame (the first failed
\* to load, the second found nothing acceptable); the 25 x 10 centre crop
\* went to the brand detector and gave a hit.
C12_Witness ==
    /\ tsPc = "done"
    /\ used_det_model = None
    /\ frame = [H |-> 40, W |-> 16]
    /\ Len(detLog) = 2
    /\ detLog[1].gave = "load_failed"
    /\ detLog[2].gave = "none"
    /\ brandLog = <<Proposal(3, 7, 13, 32, "center", 100)>>
    /\ Len(brand_hits) = 1

\* C12 as stated, for every frame size and every max_vehicle_crops: when
\* stage 1 yielded no proposal, two_stage_hits has exactly one centred
\* proposal of size int(H/1.6) x int(W/1.6) and the brand detector was run
\* at least once by the time the call returns.
C12_BrandAlwaysRuns ==
    (tsPc = "done" /\ used_det_model = None) =>
        /\ Len(proposals) = 1
        /\ proposals[1].x2 - proposals[1].x1 = (5 * frame.W) \div 8
        /\ proposals[1].y2 - proposals[1].y1 = (5 * frame.H) \div 8
        /\ Len(brandLog) >= 1

\* C13: when stage 1 yields more than max_vehicle_crops proposals, the
\* proposals given to the brand detector are max_vehicle_crops proposals of
\* the highest confidence, in descending order of confidence.
C13_TopConfidenceCrops ==
    ( /\ tsPc = "done"
      /\ used_det_model # None
      /\ max_vehicle_crops >= 1
      /\ Len(proposals) > max_vehicle_crops ) =>
        /\ Len(brandLog) = max_vehicle_crops
        /\ \A i, j \in DOMAIN brandLog :
              i < j => brandLog[i].conf >= brandLog[j].conf
        /\ \E f \in [DOMAIN brandLog -> DOMAIN proposals] :
              /\ \A i, j \in DOMAIN brandLog : i # j => f[i] # f[j]
              /\ \A i \in DOMAIN brandLog : brandLog[i] = proposals[f[i]]
              /\ \A i \in DOMAIN brandLog :
                    \A k \in DOMAIN proposals \ {f[j] : j \in DOMAIN brandLog} :
                        proposals[f[i]].conf >= proposals[k].conf

\* C14: _collect_proposals tries the detectors in the given order; every
\* detector before the one it returns from failed to load or gave no
\* proposal; the result is the proposals of the first detector that gave
\* one, and no later detector was tried; if every detector failed to load
\* or gave none, the result is no proposal with used model None; and an
\* exception leaves only from a detector whose predict raised.
C14_FirstDetectorWithProposals ==
    /\ \A k \in DOMAIN detLog : detLog[k].det = k
    /\ \A k \in DOMAIN detLog : k < Len(detLog) => SkippedDetector(detLog[k])
    /\ tsPc = "raised_stage1" => detLog[Len(detLog)].gave = "raised"
    /\ Stage1Returned =>
        IF used_det_model # None
        THEN /\ Len(detLog) = used_det_model
             /\ detLog[used_det_model].gave = "some"
             /\ detLog[used_det_model].props # <<>>
             /\ proposals = detLog[used_det_model].props
        ELSE /\ Len(detLog) = Len(det_order)
             /\ \A k \in DOMAIN detLog : SkippedDetector(detLog[k])
             /\ tsPc = "fallback" => proposals = <<>>

\* The first detector loaded and found only a box too small to crop; the
\* result comes from the second, "yolov8n.pt".
C14_Witness ==
    /\ tsPc = "fallback"
    /\ used_det_model = 2
    /\ detLog[1].gave = "none"
    /\ Len(proposals) = 2
    /\ proposals[1].conf < proposals[2].conf

\* The positions of on_message inside `with LOCK`, and those of main before
\* loop_forever.
CriticalPcs == {"body", "write_open", "write_dump", "write_replace", "unlock"}
StartupPcs == {"load", "ensure_reset", "write_open", "write_dump", "write_replace"}
InCritical == {h \in Handlers : handlers[h].pc \in CriticalPcs}
SharedState == <<CURR, TODAY, LAST_RESET_DAY, stateFile, tmpFile>>
\* A step of main's startup: _load_state, _ensure_reset_if_needed, _write_state
StartupStep ==
    \/ main_load_state
    \/ main_ensure_reset
    \/ main_write_open
    \/ main_write_dump
    \/ main_write_replace
\* A step of on_message that reads or writes the sets or the files.
HandlerAccessStep ==
    \E h \in Handlers :
        \/ on_message_body(h)
        \/ on_message_write_open(h)
        \/ on_message_write_dump(h)
        \/ on_message_write_replace(h)

\* C15, for on_message: LOCK is held exactly while one handler is inside
\* `with LOCK`, never by two and never by a handler that is decoding or
\* waiting; every step of a handler that reads or writes CURR, TODAY,
\* LAST_RESET_DAY or the files is taken by the one handler holding LOCK;
\* while the process serves messages nothing else changes them; and main's
\* startup steps run without LOCK while no handler exists.
C15_HandlersSerialized ==
    /\ [](/\ Cardinality(InCritical) <= 1
          /\ (mainPc = "loop" /\ LOCK) => Cardinality(InCritical) = 1
          /\ InCritical # {} => LOCK
          /\ mainPc \in StartupPcs =>
                (~ LOCK /\ \A h \in Handlers : handlers[h] = IdleHandler))
    /\ [][ /\ HandlerAccessStep => (LOCK /\ LOCK')
           /\ (mainPc = "loop" /\ mainPc' = "loop" /\ SharedState' # SharedState)
                 => HandlerAccessStep
           /\ (\E h \in Handlers : \E p \in Payloads : on_message_decode(h, p))
                 => InCritical' = InCritical
         ]_vars

\* One handler is writing the temp file under LOCK while the other has
\* decoded its message and waits for LOCK.
C15_Witness ==
    \E h1, h2 \in Handlers :
        /\ handlers[h1].pc = "write_dump"
        /\ handlers[h2].pc = "lock"
        /\ LOCK
        /\ mainPc = "loop"

\* C15 as stated: every step that reads or writes CURR, TODAY,
\* LAST_RESET_DAY or the state file (message handling, reset check, startup
\* load and startup persist) is taken while LOCK is held.
C15_EveryAccessUnderLock ==
    [][ (HandlerAccessStep \/ StartupStep) => LOCK ]_vars

\* C16: no step, of _write_state or of anything else, an interruption of
\* the process at any point included, leaves the state file partially
\* written: a step leaves the file as it is or replaces it by the complete
\* snapshot of CURR and TODAY, and partial content is written to the temp
\* file only.
C16_AtomicPersist ==
    [][ /\ stateFile' = stateFile \/ stateFile' = JsonFile(CURR, TODAY)
        /\ stateFile'.kind = "partial" => stateFile.kind = "partial"
        /\ Restart => (stateFile' = stateFile /\ tmpFile' = tmpFile)
      ]_vars

\* The process was interrupted inside _write_state and started again: the
\* temp file is partial, the state file still holds the snapshot written
\* before.
C16_Witness ==
    /\ mainPc = "load"
    /\ tmpFile = PartialFile
    /\ stateFile.kind = "json"
    /\ stateFile.today # {}

\* ------------------------------------------------------------------------
\* The sleep schedule (mailcam_detector_onnx.py, lines 582 and 657-660;
\* mailcam_daemon.py, lines 40 and 63-65)
\* ------------------------------------------------------------------------
\* Time on the monotonic clock is counted in half seconds.
\* POLL_SEC (line 72; POLL of mailcam_daemon.py, line 14): 2.5 s by default.
POLL_SEC == 5
\* What time.monotonic() may read when the loop is entered.
StartReadings == {0, 3}
\* How long the work of one cycle may take: nothing, less than the poll
\* interval, the interval itself, more, and more than two intervals.
WorkDurations == 0..MaxWork

\* Line 582 (mailcam_daemon.py, line 40): next_time = time.monotonic()
sched_start ==
    /\ schedPc = "start"
    /\ next_time' = mono
    /\ start' = mono
    /\ schedPc' = "work"
    /\ UNCHANGED <<mono, sleep_time, cycles, workLog>>

\* Lines 587-655 (mailcam_daemon.py, lines 42-61): the work of a cycle
\* takes d on the clock.
sched_work(d) ==
    /\ schedPc = "work"
    /\ cycles < MaxCycles
    /\ mono' = mono + d
    /\ workLog' = Append(workLog, d)
    /\ schedPc' = "sleep"
    /\ UNCHANGED <<start, next_time, sleep_time, cycles>>

\* Variant of the sleep that waits a poll interval from the end of the work.
sched_sleep_relative ==
    /\ schedPc = "sleep"
    /\ next_time' = mono + POLL_SEC
    /\ sleep_time' = Max2(0, next_time' - mono)
    /\ mono' = mono + sleep_time'
    /\ cycles' = cycles + 1
    /\ schedPc' = "work"
    /\ UNCHANGED <<start, workLog>>

\* Lines 658-660 (mailcam_daemon.py, lines 64-65): the target moves on by
\* one interval, and time.sleep returns when the clock has gone on by its
\* argument.
sched_sleep ==
    /\ schedPc = "sleep"
    /\ next_time' = next_time + POLL_SEC
    /\ sleep_time' = Max2(0, next_time' - mono)
    /\ mono' = mono + sleep_time'
    /\ cycles' = cycles + 1
    /\ schedPc' = "work"
    /\ UNCHANGED <<start, workLog>>

SchedInit ==
    /\ ProgramIdle
    /\ NmsIdle
    /\ CascadeIdle
    /\ schedPc = "start"
    /\ mono \in StartReadings
    /\ start = 0
    /\ next_time = 0
    /\ sleep_time = 0
    /\ cycles = 0
    /\ workLog = <<>>

notSchedVars == <<now, trackerVars, sidecarVars, loopVars, nmsVars, cascadeVars>>
SchedStart == sched_start /\ UNCHANGED notSchedVars
SchedWork == (\E d \in WorkDurations : sched_work(d)) /\ UNCHANGED notSchedVars
SchedSleep == sched_sleep /\ UNCHANGED notSchedVars

SchedNext ==
    \/ SchedStart
    \/ SchedWork
    \/ SchedSleep

SpecSched == SchedInit /\ [][SchedNext]_vars

\* The work of every cycle so far took no longer than the poll interval.
AllWithinPoll == \A i \in DOMAIN workLog : workLog[i] <= POLL_SEC

\* C18: drift-free scheduling.  Whatever the work of the cycles took, the
\* sleep target after k cycles is start + k * POLL_SEC and the argument of
\* time.sleep is never negative; when no cycle's work took longer than
\* POLL_SEC, cycle k+1 begins at start + k * POLL_SEC; and in general a
\* cycle begins at its target or, when the work before it ended later, at
\* the end of that work, so that a late cycle does not move the targets of
\* the cycles after it.
C18_DriftFreeSchedule ==
    /\ [] ( schedPc \in {"work", "sleep"} =>
              /\ next_time = start + cycles * POLL_SEC
              /\ sleep_time >= 0
              /\ (schedPc = "work" /\ AllWithinPoll)
                    => mono = start + cycles * POLL_SEC )
    /\ [][ sched_sleep =>
              /\ mono' = Max2(mono, start + (cycles + 1) * POLL_SEC)
              /\ sleep_time' = mono' - mono
         ]_vars

\* The work of the first cycle overran the interval by two, so the second
\* cycle began late; its work was short, and the third cycle begins on its
\* target, two intervals after the start, after a sleep of one.
C18_Witness ==
    /\ schedPc = "work"
    /\ cycles = 2
    /\ workLog = <<7, 2>>
    /\ sleep_time = 1
    /\ mono = start + 2 * POLL_SEC

\* ------------------------------------------------------------------------
\* The detections of the loop against the day window of the tracker
\* ------------------------------------------------------------------------
\* The window of a tracker day: from reset_hour of that date up to
\* reset_hour of the next.
WindowStart(day) == At(day, reset_hour * MinutesPerHour)
InWindow(t, day) == WindowStart(day) <= t /\ t < WindowStart(day + 1)

\* C19: in the detection loop every stored detection timestamp lies inside
\* the window of the tracker's current_day, and so no reset erases a
\* detection time-stamped at or after the boundary the reset is for.
C19_DetectionsInsideWindow ==
    /\ [] ( \A c \in carriers :
              detections[c] # None => InWindow(detections[c], current_day) )
    /\ [][ \A c \in carriers :
              (detections[c] # None /\ detections'[c] = None)
                  => detections[c] < WindowStart(current_day') ]_vars

\* ------------------------------------------------------------------------
\* The two readers of the tracker
\* ------------------------------------------------------------------------
\* C20: in every reachable tracker state, for every tracked carrier,
\* get_summary reports detected = True exactly when is_detected is True,
\* whatever timestamp arguments (0 and None among them) mark_detected was
\* called with; and a call of get_summary returns that summary and leaves
\* detections and current_day unchanged.
C20_ReadersAgree ==
    /\ [] ( \A c \in carriers :
              get_summary(Self).ret.carriers[c].detected
                  = is_detected(Self, c).ret )
    /\ [][ GetSummaryStep =>
              /\ UNCHANGED <<detections, current_day>>
              /\ \A c \in carriers :
                    lastCall'.summary.carriers[c].detected
                        = is_detected(Self, c).ret
         ]_vars

\* get_summary has just returned: "ups", marked on an earlier day with a
\* timestamp of that day and not reset since, is reported as detected, and
\* "usps" is not.
C20_Witness ==
    /\ lastCall.op = "get_summary"
    /\ detections["ups"] # None
    /\ DateOf(detections["ups"]) < DateOf(now)
    /\ lastCall.summary.carriers["ups"].detected
    /\ lastCall.summary.carriers["ups"].timestamp = detections["ups"]
    /\ ~ lastCall.summary.carriers["usps"].detected
    /\ detections["usps"] = None

\* ------------------------------------------------------------------------
\* SpecSkew: the tracker under a local clock that may be set to any time
\* ------------------------------------------------------------------------
\* datetime.now() (line 96) reads the local wall clock, which an
\* administrator, a time synchronisation or a change of time zone may move
\* forward or backward between two calls.
ClockSet ==
    /\ \E t \in Times : t # now /\ now' = t
    /\ UNCHANGED trackerVars
    /\ UNCHANGED <<CURR, TODAY, LAST_RESET_DAY, LOCK, stateFile, tmpFile,
                   mainPc, handlers, sinceCrossing>>
    /\ UNCHANGED loopVars
    /\ UNCHANGED auxVars

\* The tracker may be built at any of the sampled times.
SkewInit ==
    /\ now \in Times
    /\ detections = tracker_init(now).detections
    /\ current_day = tracker_init(now).current_day
    /\ lastCall = [op |-> "__init__", ret |-> FALSE, summary |-> NoSummary]
    /\ SidecarLoaded
    /\ stateFile = MissingFile
    /\ LoopStart
    /\ AuxIdle

SkewNext ==
    \/ ClockSet
    \/ TrackerCheckAndReset
    \/ TrackerMarkDetected
    \/ TrackerIsDetected
    \/ TrackerGetSummary

SpecSkew == SkewInit /\ [][SkewNext]_vars

\* C21: whatever the local clock reads from call to call, backward moves
\* across the reset boundary included, current_day never decreases; and a
\* check_and_reset whose computed day is not later than the stored
\* current_day returns False and leaves every detection and current_day as
\* they were.
C21_DayNeverDecreases ==
    [][ /\ current_day' >= current_day
        /\ (CheckAndResetStep /\ _get_current_day(now) <= current_day)
              => /\ lastCall'.ret = FALSE
                 /\ UNCHANGED <<detections, current_day>>
      ]_vars

\* The clock has been moved back to before the reset boundary of the
\* tracker's day; check_and_reset has returned False and the detection of
\* "ups" is still there.
C21_Witness ==
    /\ lastCall.op = "check_and_reset"
    /\ lastCall.ret = FALSE
    /\ _get_current_day(now) < current_day
    /\ detections["ups"] # None
    /\ _get_current_day(detections["ups"]) = current_day

====
